---- MODULE Spec2Model ----
(***************************************************************************)
(* lobrow: a module loader for browsers (src/lobrow.js).                   *)
(*                                                                         *)
(* Names are JavaScript strings, modelled as sequences of one-character    *)
(* strings, so that the resolver works on characters as the code does.     *)
(* The loader is single threaded: every action below is one run-to-        *)
(* completion turn of the JavaScript event loop (a call of the public      *)
(* interface, or one XMLHttpRequest reaching readyState 4).                *)
(***************************************************************************)
EXTENDS Integers, Sequences, FiniteSets, TLC

\* ------------------------------------------------------------------------
\* Bounds of the model

\* Number of calls of the public interface (lobrow.require) in one run
MaxCalls == 2

\* Number of path segments of a base name handed to the resolver
MaxSegments == 2

\* Number of leading "./" and "../" of an import name handed to the resolver
MaxPrefixes == 2

\* Number of StringSet objects constructed in one run
MaxSets == 2

\* Number of arguments handed to the StringSet constructor
MaxArgs == 2

\* ------------------------------------------------------------------------
\* Helpers (src/lobrow.js, "Helpers")

\* str.indexOf(prefix) === 0
startsWith(str, prefix) ==
    /\ Len(prefix) <= Len(str)
    /\ SubSeq(str, 1, Len(prefix)) = prefix

\* str.lastIndexOf(pat): 0-based index of the last occurrence, -1 if none
lastIndexOf(str, pat) ==
    LET hits == { i \in 0..(Len(str) - Len(pat)) :
                    SubSeq(str, i + 1, i + Len(pat)) = pat }
    IN  IF hits = {} THEN -1
        ELSE CHOOSE i \in hits : \A k \in hits : k <= i

endsWith(str, suffix) ==
    LET index == lastIndexOf(str, suffix)
    IN  index >= 0 /\ index = Len(str) - Len(suffix)

removePrefixMaybe(prefix, str) ==
    IF startsWith(str, prefix)
    THEN SubSeq(str, Len(prefix) + 1, Len(str))
    ELSE str

\* The string literals of the code
DotSlash    == <<".", "/">>
DotDotSlash == <<".", ".", "/">>
Slash       == <<"/">>
DotDot      == <<".", ".">>

START_FILE        == <<"_", "_", "S", "T", "A", "R", "T", "_", "_">>
CURRENT_DIRECTORY == <<>>

\* ------------------------------------------------------------------------
\* Normalize module names (the pure part)

\* /^[.][.]([/][.][.])*$/.test(name)
OnlyGoingUp(name) ==
    /\ Len(name) % 3 = 2
    /\ \A i \in 1..Len(name) :
          name[i] = (IF i % 3 = 0 THEN "/" ELSE ".")

\* Faulty variant: the parent of the current directory is the current
\* directory
goToParentDir_EmptyStays(name) ==
    IF name = <<>> THEN CURRENT_DIRECTORY
    ELSE IF OnlyGoingUp(name) THEN DotDotSlash \o name
    ELSE LET slashIndex == lastIndexOf(name, Slash)
         IN  IF slashIndex < 0 THEN CURRENT_DIRECTORY
             ELSE SubSeq(name, 1, slashIndex)

\* Faulty variant: a name that only goes up loses its last segment
goToParentDir_NoAscentBranch(name) ==
    IF name = <<>> THEN DotDot
    ELSE LET slashIndex == lastIndexOf(name, Slash)
         IN  IF slashIndex < 0 THEN CURRENT_DIRECTORY
             ELSE SubSeq(name, 1, slashIndex)

\* Faulty variant: the slash before the last segment is kept
goToParentDir_KeepSlash(name) ==
    IF name = <<>> THEN DotDot
    ELSE IF OnlyGoingUp(name) THEN DotDotSlash \o name
    ELSE LET slashIndex == lastIndexOf(name, Slash)
         IN  IF slashIndex < 0 THEN CURRENT_DIRECTORY
             ELSE SubSeq(name, 1, slashIndex + 1)

goToParentDir(name) ==
    IF name = <<>> THEN DotDot
    ELSE IF OnlyGoingUp(name) THEN DotDotSlash \o name
    ELSE LET slashIndex == lastIndexOf(name, Slash)
         IN  IF slashIndex < 0 THEN CURRENT_DIRECTORY
             ELSE SubSeq(name, 1, slashIndex)

descend(base, path) ==
    IF Len(base) = 0 THEN path ELSE base \o Slash \o path

isLegalNormalizedName(name) ==
    ~endsWith(name, Slash) /\ ~startsWith(name, DotSlash)

\* The while loop of _resolveImportName followed by the final _descend
RECURSIVE goUpThenDescend(_, _)
goUpThenDescend(baseName, importName) ==
    IF startsWith(importName, DotDotSlash)
    THEN goUpThenDescend(goToParentDir(baseName),
                         removePrefixMaybe(DotDotSlash, importName))
    ELSE descend(baseName, importName)

\* Faulty variant: the base is taken as a directory, not as a file in it
resolveRelative_BaseAsDirectory(baseName, importName) ==
    IF startsWith(importName, DotSlash)
    THEN descend(baseName, removePrefixMaybe(DotSlash, importName))
    ELSE goUpThenDescend(baseName, importName)

\* The relative branch of _resolveImportName
resolveRelative(baseName, importName) ==
    LET dir == goToParentDir(baseName)
    IN  IF startsWith(importName, DotSlash)
        THEN descend(dir, removePrefixMaybe(DotSlash, importName))
        ELSE goUpThenDescend(dir, importName)

\* ------------------------------------------------------------------------
\* The environment: the files the server holds and the Global Name Table

Name(c) == <<c>>
Sibling(c) == <<".", "/", c>>

\* A module source is a sequence of tokens: a require call with a quoted
\* literal, or any other code.
Req(lit) == [t |-> "require", lit |-> lit]
Code     == [t |-> "code", lit |-> <<>>]

\* REQUIRE_REGEX / _extractImportNames: the literals of the require calls,
\* in order of appearance, duplicates kept
RECURSIVE extractImportNames(_)
extractImportNames(source) ==
    IF source = <<>> THEN <<>>
    ELSE IF Head(source).t = "require"
         THEN <<Head(source).lit>> \o extractImportNames(Tail(source))
         ELSE extractImportNames(Tail(source))

\* Canonical identifier -> source text of <identifier>.js
Files ==
    (Name("a") :> <<Req(Sibling("b")), Code, Req(Sibling("c"))>>) @@
    (Name("b") :> <<Code, Req(Sibling("d"))>>) @@
    (Name("c") :> <<Req(Sibling("d")), Code>>) @@
    (Name("d") :> <<Code>>) @@
    (Name("s") :> <<Req(Sibling("s"))>>) @@
    (Name("p") :> <<Req(Sibling("q"))>>) @@
    (Name("q") :> <<Req(Sibling("r"))>>) @@
    (Name("r") :> <<Code, Req(Sibling("p"))>>) @@
    (Name("u") :> <<Req(Sibling("d")), Req(Name("g")), Code,
                    Req(Sibling("d"))>>) @@
    (Name("x") :> <<Code>>) @@
    (Name("m") :> <<Req(Name("x")), Code, Req(Sibling("d"))>>) @@
    (Name("w") :> <<Code, Req(Name("z"))>>)

\* Names for which open()/send() throws at once (a browser refusing XHR
\* above the current directory, or for local files)
Restricted == { <<".", ".", "/", "k">> }

\* e.globalNames: bare name -> what the table holds for it
GlobalNames ==
    (Name("g") :> [type |-> "string", path |-> Name("d")]) @@
    (Name("x") :> [type |-> "object", path |-> <<>>]) @@
    (Name("y") :> [type |-> "number", path |-> <<>>])

\* e.globalNames[importName] (or e.globalNames(importName))
GlobalLookup(importName) ==
    IF importName \in DOMAIN GlobalNames
    THEN GlobalNames[importName]
    ELSE [type |-> "undefined", path |-> <<>>]

\* ------------------------------------------------------------------------
\* Module values

\* The exports object made by the gen-th execution of the body of `name`
Exports(name, gen) == [of |-> name, src |-> "exports", gen |-> gen]
\* The object the Global Name Table holds for a bare name
Inline(name)       == [of |-> name, src |-> "inline", gen |-> 0]
\* A slot of the modules array that has not been assigned
Undefined          == [of |-> <<>>, src |-> "undefined", gen |-> 0]

\* JavaScript truthiness of a cache lookup (a missing property is undefined)
Truthy(v) == v # Undefined

Put(f, k, v) == [n \in DOMAIN f \cup {k} |-> IF n = k THEN v ELSE f[n]]
Get(f, k, default) == IF k \in DOMAIN f THEN f[k] ELSE default
Range(seq) == { seq[i] : i \in 1..Len(seq) }

\* ------------------------------------------------------------------------
\* State

VARIABLES
    moduleCache,       \* canonical identifier -> module value (own properties)
    currentlyLoading,  \* the identifiers marked as loading
    xhrs,              \* the XMLHttpRequests sent and not yet complete,
                       \* each with the callback slot (join j, index i) it feeds
    joins,             \* the activations of loadModules with N >= 1: names,
                       \* modules, moduleCount and the callback to call
    calls,             \* the calls of lobrow.require made so far (import names)
    fetched,           \* history: identifier -> number of requests sent
    bodyRuns,          \* history: identifier -> the moduleDict of each
                       \* execution of its body
    handed,            \* history: every invocation of a loadModules callback
    errors,            \* history: the exceptions thrown
    requests,          \* history: every call of loadModule and how it ended
    resolved,          \* a direct call of e._resolveImportName: its arguments
                       \* and, once made, what it returned
    sets,              \* the StringSet objects constructed (src/demo/strset.js):
                       \* the own properties of this.data of each
    passed,            \* history: the strings handed to each set (constructor
                       \* arguments and add)
    copied,            \* history: the members of the original when the set
                       \* was constructed as a copy
    typeErrors         \* history: the TypeErrors thrown (their messages)

loaderVars == <<moduleCache, currentlyLoading, xhrs, joins, calls,
                fetched, bodyRuns, handed, errors, requests>>
strsetVars == <<sets, passed, copied, typeErrors>>

vars == <<moduleCache, currentlyLoading, xhrs, joins, calls,
          fetched, bodyRuns, handed, errors, requests,
          resolved, sets, passed, copied, typeErrors>>

\* The loader state as one record, threaded through a synchronous turn.
\* thrown: an exception is propagating (the rest of the turn is skipped).
State ==
    [cache |-> moduleCache, loading |-> currentlyLoading, xhrs |-> xhrs,
     joins |-> joins, fetched |-> fetched, bodyRuns |-> bodyRuns,
     handed |-> handed, errors |-> errors, requests |-> requests,
     thrown |-> FALSE]

Commit(st) ==
    /\ moduleCache' = st.cache
    /\ currentlyLoading' = st.loading
    /\ xhrs' = st.xhrs
    /\ joins' = st.joins
    /\ fetched' = st.fetched
    /\ bodyRuns' = st.bodyRuns
    /\ handed' = st.handed
    /\ errors' = st.errors
    /\ requests' = st.requests

\* throw new Error(...): kind of error, the name it is about, and the
\* callback slot of the loadModule call that threw (0, 0 elsewhere)
Throw(st, kind, name, j, i) ==
    [st EXCEPT !.thrown = TRUE,
               !.errors = @ \cup {[kind |-> kind, name |-> name,
                                   j |-> j, i |-> i]}]

\* The callbacks passed to loadModules
\* - by e.require: function (modules) { body.apply(null, modules) }
RequireCont(k) ==
    [kind |-> "require", k |-> k, name |-> <<>>, importNames |-> <<>>,
     pj |-> 0, pi |-> 0]
\* - by runEvaluatedModule for the module `name`, which then calls the
\*   callback it was given itself
ModuleCont(name, importNames, callback) ==
    [kind |-> "module", k |-> callback.k, name |-> name,
     importNames |-> importNames, pj |-> callback.j, pi |-> callback.i]

\* The callback argument of runEvaluatedModule:
\* - the one loadModule makes around its own callback, slot i of join j
SlotCallback(j, i) == [j |-> j, i |-> i, k |-> 0]
\* - none, in the k-th call of the public interface (e.module)
NoCallback(k) == [j |-> 0, i |-> 0, k |-> k]

\* ------------------------------------------------------------------------
\* Normalize module names (with the Global Name Table and the cache)

\* Faulty variant: a global name without entry is taken as a path
resolveImportName_UnknownAsPath(st, baseName, importName) ==
    IF ~isLegalNormalizedName(baseName)
    THEN [st |-> Throw(st, "IllegalNormalizedName", baseName, 0, 0),
          name |-> <<>>]
    ELSE IF startsWith(importName, Slash)
    THEN [st |-> st, name |-> importName]
    ELSE IF startsWith(importName, DotSlash)
            \/ startsWith(importName, DotDotSlash)
    THEN [st |-> st, name |-> resolveRelative(baseName, importName)]
    ELSE LET resolvedName == GlobalLookup(importName)
         IN  CASE resolvedName.type = "object" ->
                    [st |-> IF ~Truthy(Get(st.cache, importName, Undefined))
                            THEN [st EXCEPT !.cache =
                                     Put(@, importName, Inline(importName))]
                            ELSE st,
                     name |-> importName]
               [] resolvedName.type = "string" ->
                    [st |-> st, name |-> resolvedName.path]
               [] resolvedName.type = "undefined" ->
                    [st |-> st, name |-> importName]
               [] OTHER ->
                    [st |-> Throw(st, "IllegalMappingValue", importName, 0, 0),
                     name |-> <<>>]

\* Faulty variant: the base is checked for relative names only
resolveImportName_LateCheck(st, baseName, importName) ==
    IF startsWith(importName, Slash)
    THEN [st |-> st, name |-> importName]
    ELSE IF startsWith(importName, DotSlash)
            \/ startsWith(importName, DotDotSlash)
    THEN IF ~isLegalNormalizedName(baseName)
         THEN [st |-> Throw(st, "IllegalNormalizedName", baseName, 0, 0),
               name |-> <<>>]
         ELSE [st |-> st, name |-> resolveRelative(baseName, importName)]
    ELSE LET resolvedName == GlobalLookup(importName)
         IN  CASE resolvedName.type = "object" ->
                    [st |-> IF ~Truthy(Get(st.cache, importName, Undefined))
                            THEN [st EXCEPT !.cache =
                                     Put(@, importName, Inline(importName))]
                            ELSE st,
                     name |-> importName]
               [] resolvedName.type = "string" ->
                    [st |-> st, name |-> resolvedName.path]
               [] resolvedName.type = "undefined" ->
                    [st |-> Throw(st, "UnknownGlobalName", importName, 0, 0),
                     name |-> <<>>]
               [] OTHER ->
                    [st |-> Throw(st, "IllegalMappingValue", importName, 0, 0),
                     name |-> <<>>]

\* Faulty variant: the inline object is stored whatever the cache holds
resolveImportName_AlwaysSeed(st, baseName, importName) ==
    IF ~isLegalNormalizedName(baseName)
    THEN [st |-> Throw(st, "IllegalNormalizedName", baseName, 0, 0),
          name |-> <<>>]
    ELSE IF startsWith(importName, Slash)
    THEN [st |-> st, name |-> importName]
    ELSE IF startsWith(importName, DotSlash)
            \/ startsWith(importName, DotDotSlash)
    THEN [st |-> st, name |-> resolveRelative(baseName, importName)]
    ELSE LET resolvedName == GlobalLookup(importName)
         IN  CASE resolvedName.type = "object" ->
                    [st |-> [st EXCEPT !.cache =
                                Put(@, importName, Inline(importName))],
                     name |-> importName]
               [] resolvedName.type = "string" ->
                    [st |-> st, name |-> resolvedName.path]
               [] resolvedName.type = "undefined" ->
                    [st |-> Throw(st, "UnknownGlobalName", importName, 0, 0),
                     name |-> <<>>]
               [] OTHER ->
                    [st |-> Throw(st, "IllegalMappingValue", importName, 0, 0),
                     name |-> <<>>]

\* e._resolveImportName: the state after the call and the name returned
resolveImportName(st, baseName, importName) ==
    IF ~isLegalNormalizedName(baseName)
    THEN [st |-> Throw(st, "IllegalNormalizedName", baseName, 0, 0),
          name |-> <<>>]
    ELSE IF startsWith(importName, Slash)
    THEN [st |-> st, name |-> importName]
    ELSE IF startsWith(importName, DotSlash)
            \/ startsWith(importName, DotDotSlash)
    THEN [st |-> st, name |-> resolveRelative(baseName, importName)]
    ELSE LET resolvedName == GlobalLookup(importName)
         IN  CASE resolvedName.type = "object" ->
                    [st |-> IF ~Truthy(Get(st.cache, importName, Undefined))
                            THEN [st EXCEPT !.cache =
                                     Put(@, importName, Inline(importName))]
                            ELSE st,
                     name |-> importName]
               [] resolvedName.type = "string" ->
                    [st |-> st, name |-> resolvedName.path]
               [] resolvedName.type = "undefined" ->
                    [st |-> Throw(st, "UnknownGlobalName", importName, 0, 0),
                     name |-> <<>>]
               [] OTHER ->
                    [st |-> Throw(st, "IllegalMappingValue", importName, 0, 0),
                     name |-> <<>>]

\* resolveImportNames: importNames.map(...), left to right, stopped by a throw
RECURSIVE resolveImportNames(_, _, _)
resolveImportNames(st, baseName, importNames) ==
    IF importNames = <<>> \/ st.thrown
    THEN [st |-> st, names |-> <<>>]
    ELSE LET first == resolveImportName(st, baseName, Head(importNames))
             rest  == resolveImportNames(first.st, baseName, Tail(importNames))
         IN  [st |-> rest.st, names |-> <<first.name>> \o rest.names]

\* e._zipToObject: later keys overwrite earlier equal keys
zipToObject(keys, values) ==
    [key \in Range(keys) |->
        values[CHOOSE i \in 1..Len(keys) :
                  /\ keys[i] = key
                  /\ \A k \in 1..Len(keys) : keys[k] = key => k <= i]]

\* ------------------------------------------------------------------------
\* Loading

RECURSIVE moduleLoaded(_, _, _, _)
RECURSIVE callCallback(_, _, _, _)
RECURSIVE sourceEvaluated(_, _, _)
RECURSIVE runEvaluatedBody(_, _, _)

\* Faulty variant: modules.push(value) instead of modules[i] = value
moduleLoaded_Push(st, j, i, value) ==
    LET at  == st.joins[j].moduleCount + 1
        st1 == [st EXCEPT !.joins[j].modules[at] = value,
                          !.joins[j].moduleCount = @ + 1,
                          !.joins[j].order = Append(@, i)]
        jn  == st1.joins[j]
    IN  IF jn.moduleCount >= Len(jn.names)
        THEN callCallback(st1, jn.cont, jn.names, jn.modules)
        ELSE st1

\* Faulty variant: the callback is called without comparing moduleCount with the
\* number of names
moduleLoaded_NoCount(st, j, i, value) ==
    LET st1 == [st EXCEPT !.joins[j].modules[i] = value,
                          !.joins[j].moduleCount = @ + 1,
                          !.joins[j].order = Append(@, i)]
        jn  == st1.joins[j]
    IN  callCallback(st1, jn.cont, jn.names, jn.modules)

\* The callback loadModules passes to loadModule for index i of join j:
\*   modules[i] = value; moduleCount++;
\*   if (moduleCount >= normalizedNames.length && callback) callback(modules)
moduleLoaded(st, j, i, value) ==
    LET st1 == [st EXCEPT !.joins[j].modules[i] = value,
                          !.joins[j].moduleCount = @ + 1,
                          !.joins[j].order = Append(@, i)]
        jn  == st1.joins[j]
    IN  IF jn.moduleCount >= Len(jn.names)
        THEN callCallback(st1, jn.cont, jn.names, jn.modules)
        ELSE st1

\* callback(modules) of loadModules: either the function e.require passes
\* (body.apply(null, modules)) or the one runEvaluatedModule passes
\* (zip the import names with the modules and run the body)
callCallback(st, cont, names, modules) ==
    LET nth == Cardinality({h \in st.handed : h.cont = cont}) + 1
        st1 == [st EXCEPT !.handed = @ \cup
                   {[cont |-> cont, names |-> names, modules |-> modules,
                     nth |-> nth,
                     cached |-> Range(names) \subseteq DOMAIN st.cache]}]
    IN  IF cont.kind = "require"
        THEN st1
        ELSE IF Len(cont.importNames) # Len(modules)
        THEN Throw(st1, "MismatchedZipLengths", cont.name, 0, 0)
        ELSE runEvaluatedBody(st1, cont, zipToObject(cont.importNames, modules))

\* runEvaluatedBody: run the body with require = lookup in moduleDict and a
\* fresh exports object, then callback(module.exports)
runEvaluatedBody(st, cont, moduleDict) ==
    LET runs == Append(Get(st.bodyRuns, cont.name, <<>>), moduleDict)
        st1  == [st EXCEPT !.bodyRuns = Put(@, cont.name, runs)]
    IN  IF cont.pj = 0
        THEN st1
        ELSE sourceEvaluated(st1, cont, Exports(cont.name, Len(runs)))

\* The callback loadModule passes to evaluateRawModuleSource:
\*   delete currentlyLoading[normalizedName];
\*   moduleCache[normalizedName] = result; callback(result)
sourceEvaluated(st, cont, result) ==
    LET st1 == [st EXCEPT !.loading = @ \ {cont.name},
                          !.cache = Put(@, cont.name, result)]
    IN  moduleLoaded(st1, cont.pj, cont.pi, result)

\* currentlyLoading[normalizedName] = true
Marked(st, normalizedName) ==
    [st EXCEPT !.loading = @ \cup {normalizedName}]

\* History: the call loadModule(name, slot i of join j), the state it
\* found and how it ended
Logged(st, name, j, i, outcome) ==
    [st EXCEPT !.requests = @ \cup
        {[name |-> name, j |-> j, i |-> i, outcome |-> outcome,
          inflight |-> name \in st.loading,
          cached |-> name \in DOMAIN st.cache]}]

\* Faulty variant: currentlyLoading is never consulted
loadModule_NoInFlightCheck(st, normalizedName, j, i) ==
    IF normalizedName \in DOMAIN st.cache
    THEN moduleLoaded(Logged(st, normalizedName, j, i, "cached"),
                      j, i, st.cache[normalizedName])
    ELSE IF normalizedName \in Restricted
    THEN Throw(Marked(Logged(st, normalizedName, j, i, "noload"),
                      normalizedName),
               "CouldNotLoad", normalizedName, j, i)
    ELSE [Marked(Logged(st, normalizedName, j, i, "fetch"),
                 normalizedName) EXCEPT
            !.xhrs = @ \cup {[name |-> normalizedName, j |-> j, i |-> i]},
            !.fetched = Put(@, normalizedName, Get(@, normalizedName, 0) + 1)]

\* Faulty variant: a module that is still loading is handed out as it is in the
\* cache (undefined) instead of raising the cycle error
loadModule_Partial(st, normalizedName, j, i) ==
    IF normalizedName \in DOMAIN st.cache \/ normalizedName \in st.loading
    THEN moduleLoaded(Logged(st, normalizedName, j, i, "cached"),
                      j, i, Get(st.cache, normalizedName, Undefined))
    ELSE IF normalizedName \in Restricted
    THEN Throw(Marked(Logged(st, normalizedName, j, i, "noload"),
                      normalizedName),
               "CouldNotLoad", normalizedName, j, i)
    ELSE [Marked(Logged(st, normalizedName, j, i, "fetch"),
                 normalizedName) EXCEPT
            !.xhrs = @ \cup {[name |-> normalizedName, j |-> j, i |-> i]},
            !.fetched = Put(@, normalizedName, Get(@, normalizedName, 0) + 1)]

\* Faulty variant: a second request for a module that is loading waits for it:
\* no error, no marker, no second fetch
loadModule_Coalesce(st, normalizedName, j, i) ==
    IF normalizedName \in DOMAIN st.cache
    THEN moduleLoaded(Logged(st, normalizedName, j, i, "cached"),
                      j, i, st.cache[normalizedName])
    ELSE IF normalizedName \in st.loading
    THEN Logged(st, normalizedName, j, i, "wait")
    ELSE IF normalizedName \in Restricted
    THEN Throw(Marked(Logged(st, normalizedName, j, i, "noload"),
                      normalizedName),
               "CouldNotLoad", normalizedName, j, i)
    ELSE [Marked(Logged(st, normalizedName, j, i, "fetch"),
                 normalizedName) EXCEPT
            !.xhrs = @ \cup {[name |-> normalizedName, j |-> j, i |-> i]},
            !.fetched = Put(@, normalizedName, Get(@, normalizedName, 0) + 1)]

\* loadModule(normalizedName, callback), the callback being slot i of join j
loadModule(st, normalizedName, j, i) ==
    IF normalizedName \in DOMAIN st.cache
    THEN moduleLoaded(Logged(st, normalizedName, j, i, "cached"),
                      j, i, st.cache[normalizedName])
    ELSE IF normalizedName \in st.loading
    THEN Throw(Logged(st, normalizedName, j, i, "cycle"),
               "Cycle", normalizedName, j, i)
    ELSE IF normalizedName \in Restricted
    THEN Throw(Marked(Logged(st, normalizedName, j, i, "noload"),
                      normalizedName),
               "CouldNotLoad", normalizedName, j, i)
    ELSE [Marked(Logged(st, normalizedName, j, i, "fetch"),
                 normalizedName) EXCEPT
            !.xhrs = @ \cup {[name |-> normalizedName, j |-> j, i |-> i]},
            !.fetched = Put(@, normalizedName, Get(@, normalizedName, 0) + 1)]

\* normalizedNames.forEach(...) from index i on; an exception ends the loop
RECURSIVE forEachName(_, _, _)
forEachName(st, j, i) ==
    IF i > Len(st.joins[j].names) \/ st.thrown
    THEN st
    ELSE forEachName(loadModule(st, st.joins[j].names[i], j, i), j, i + 1)

\* Faulty variant: an empty list is handled like any other list
loadModules_NoEmptyCase(st, normalizedNames, cont) ==
    LET j  == Len(st.joins) + 1
        jn == [names |-> normalizedNames,
               modules |-> [i \in 1..Len(normalizedNames) |-> Undefined],
               moduleCount |-> 0,
               order |-> <<>>,
               cont |-> cont]
    IN  forEachName([st EXCEPT !.joins = Append(@, jn)], j, 1)

\* loadModules(normalizedNames, callback)
loadModules(st, normalizedNames, cont) ==
    IF Len(normalizedNames) = 0
    THEN callCallback(st, cont, <<>>, <<>>)
    ELSE LET j  == Len(st.joins) + 1
             jn == [names |-> normalizedNames,
                    modules |-> [i \in 1..Len(normalizedNames) |-> Undefined],
                    moduleCount |-> 0,
                    order |-> <<>>,
                    cont |-> cont]
         IN  forEachName([st EXCEPT !.joins = Append(@, jn)], j, 1)

\* runEvaluatedModule(normalizedModuleName, body, bodySource, callback)
runEvaluatedModule(st, normalizedModuleName, bodySource, callback) ==
    LET importNames == extractImportNames(bodySource)
        r == resolveImportNames(st, normalizedModuleName, importNames)
    IN  IF r.st.thrown
        THEN r.st
        ELSE loadModules(r.st, r.names,
                 ModuleCont(normalizedModuleName, importNames, callback))

\* A response that is not JavaScript (an error page)
Html == [t |-> "html", lit |-> <<>>]

\* evaluateRawModuleSource: eval throws a SyntaxError on text that is no
\* JavaScript
evaluateRawModuleSource(st, normalizedModuleName, bodySource, callback) ==
    IF \E n \in 1..Len(bodySource) : bodySource[n].t = "html"
    THEN Throw(st, "SyntaxError", normalizedModuleName, callback.j, callback.i)
    ELSE runEvaluatedModule(st, normalizedModuleName, bodySource, callback)

\* What req.responseText can be at readyState 4: the file, or for a file
\* that does not exist an empty text or an error page
ResponseTexts(name) ==
    IF name \in DOMAIN Files THEN {Files[name]} ELSE {<<>>, <<Html>>}

\* ------------------------------------------------------------------------
\* Actions

\* The import lists the embedding page passes to lobrow.require
EntryLists ==
    { <<>>,
      <<Sibling("a")>>,
      <<Sibling("s")>>,
      <<Sibling("p")>>,
      <<Sibling("u")>>,
      <<Sibling("x")>>,
      <<Name("x"), Sibling("m")>>,
      <<Name("z")>>,
      <<Sibling("w")>>,
      <<Sibling("n"), <<".", ".", "/", "k">>>> }

\* The module bodies the embedding page passes to lobrow.module
EntryBodies == { <<Req(Sibling("d")), Code>> }

\* No direct call of the resolver
NoCall ==
    [done |-> FALSE, op |-> "", baseName |-> <<>>, importName |-> <<>>,
     name |-> <<>>, thrown |-> FALSE, cacheBefore |-> <<>>]

\* Nothing loaded yet (lines 53-54: both tables start empty)
LoaderInit ==
    /\ currentlyLoading = {}
    /\ xhrs = {}
    /\ joins = <<>>
    /\ calls = <<>>
    /\ fetched = <<>>
    /\ bodyRuns = <<>>
    /\ handed = {}
    /\ errors = {}
    /\ requests = {}

\* No StringSet constructed yet
StrSetInit ==
    /\ sets = <<>>
    /\ passed = <<>>
    /\ copied = <<>>
    /\ typeErrors = {}

Init ==
    /\ moduleCache = <<>>
    /\ LoaderInit
    /\ resolved = NoCall
    /\ StrSetInit

\* e.require(importNames, body)
Require(importNames) ==
    /\ Len(calls) < MaxCalls
    /\ calls' = Append(calls, [op |-> "require", arg |-> importNames])
    /\ LET r == resolveImportNames(State, START_FILE, importNames)
       IN  Commit(IF r.st.thrown
                  THEN r.st
                  ELSE loadModules(r.st, r.names, RequireCont(Len(calls) + 1)))
    /\ UNCHANGED <<resolved, strsetVars>>

\* req.onreadystatechange with req.readyState === 4
FetchComplete(x, responseText) ==
    /\ x \in xhrs
    /\ Commit(evaluateRawModuleSource([State EXCEPT !.xhrs = @ \ {x}],
                                      x.name, responseText,
                                      SlotCallback(x.j, x.i)))
    /\ UNCHANGED <<calls, resolved, strsetVars>>

\* e.module(body): body.toString() is the source of a function
Module(bodySource) ==
    /\ Len(calls) < MaxCalls
    /\ calls' = Append(calls, [op |-> "module", arg |-> bodySource])
    /\ Commit(runEvaluatedModule(State, START_FILE, bodySource,
                                 NoCallback(Len(calls) + 1)))
    /\ UNCHANGED <<resolved, strsetVars>>

Next ==
    \/ \E importNames \in EntryLists : Require(importNames)
    \/ \E bodySource \in EntryBodies : Module(bodySource)
    \/ \E x \in xhrs : \E text \in ResponseTexts(x.name) : FetchComplete(x, text)

Spec == Init /\ [][Next]_vars

\* ------------------------------------------------------------------------
\* The dependency graph of the files, as the resolver sees it

\* The loader state before anything was loaded
InitState ==
    [cache |-> <<>>, loading |-> {}, xhrs |-> {}, joins |-> <<>>,
     fetched |-> <<>>, bodyRuns |-> <<>>, handed |-> {}, errors |-> {},
     requests |-> {}, thrown |-> FALSE]

\* What importName written in module baseName resolves to
Canon(baseName, importName) ==
    resolveImportName(InitState, baseName, importName)

\* The import resolves to a name (no resolution error)
Resolves(baseName, importName) == ~Canon(baseName, importName).st.thrown

DirectDeps(name) ==
    IF name \in DOMAIN Files
    THEN { Canon(name, lit).name : lit \in Range(extractImportNames(Files[name])) }
    ELSE {}

RECURSIVE ReachFrom(_, _)
ReachFrom(names, steps) ==
    IF steps = 0 THEN names
    ELSE ReachFrom(names \cup UNION { DirectDeps(n) : n \in names }, steps - 1)

\* The modules name depends on, directly or transitively
DepsOf(name) == ReachFrom(DirectDeps(name), Cardinality(DOMAIN Files))

\* The modules that require themselves, directly or through others
CyclicModules == { n \in DOMAIN Files : n \in DepsOf(n) }

\* A module that can be loaded by itself: it and all it depends on are
\* files of the server that are served (or inline objects of the Global
\* Name Table), none on a cycle, and all imports resolve
Healthy(name) ==
    \A n \in {name} \cup DepsOf(name) :
       /\ n \in DOMAIN Files \/ GlobalLookup(n).type = "object"
       /\ n \notin Restricted
       /\ n \notin CyclicModules
       /\ n \in DOMAIN Files =>
            \A lit \in Range(extractImportNames(Files[n])) : Resolves(n, lit)

\* The canonical identifiers a require call asks for
Requested(importNames) ==
    { Canon(START_FILE, lit).name : lit \in Range(importNames) }

\* The require calls that ask for a module on a cycle, or for one that
\* depends on such a module
CyclicLists ==
    { l \in EntryLists :
        \E n \in Requested(l) : ({n} \cup DepsOf(n)) \cap CyclicModules # {} }

\* The require calls all of whose imports resolve to healthy modules
HealthyLists ==
    { l \in EntryLists :
        /\ \A lit \in Range(l) : Resolves(START_FILE, lit)
        /\ \A n \in Requested(l) : Healthy(n) }

Invoked(cont) == \E h \in handed : h.cont = cont

\* ------------------------------------------------------------------------
\* Claims

\* C1: the array handed to the continuation of a loadModules call has at
\* position i a value of the i-th requested identifier, whatever the order
\* in which the loads reported.
C1_RequestOrder ==
    \A h \in handed :
       /\ Len(h.modules) = Len(h.names)
       /\ \A i \in 1..Len(h.names) :
             h.modules[i] # Undefined /\ h.modules[i].of = h.names[i]

\* C1 witness: a join of two names whose second name reported first has
\* handed its array on.
C1_ReverseCompletion ==
    \E j \in 1..Len(joins) :
       /\ joins[j].order = <<2, 1>>
       /\ joins[j].names[1] # joins[j].names[2]
       /\ Invoked(joins[j].cont)

\* C2 (as claimed): once an identifier that is only a file has been loaded,
\* it was fetched once and every request made for it, also those made
\* while it was loading, has received the cached value.
C2_Coalesced ==
    \A r \in requests :
       (r.name \in DOMAIN moduleCache /\ r.name \notin DOMAIN GlobalNames)
       => /\ Get(fetched, r.name, 0) <= 1
          /\ joins[r.j].modules[r.i] = moduleCache[r.name]

\* C3: a module that requires itself, directly or through a chain of other
\* modules, is never cached, the continuation of a require call that asks
\* for it is never invoked, and when its fetches are over a cycle error has
\* been raised.
C3_CycleFails ==
    /\ \A n \in CyclicModules : n \notin DOMAIN moduleCache
    /\ \A k \in 1..Len(calls) :
          (calls[k].op = "require" /\ calls[k].arg \in CyclicLists)
          => /\ ~Invoked(RequireCont(k))
             /\ xhrs = {} =>
                  \E e \in errors : e.kind = "Cycle" /\ e.name \in CyclicModules

\* C3 witness: the chain p -> q -> r -> p has been followed to its end: the
\* load of p from r raised the cycle error.
C3_ChainClosed ==
    \E e \in errors :
       /\ e.kind = "Cycle" /\ e.name = Name("p")
       /\ joins[e.j].cont.name = Name("r")

\* C4 (as claimed): when no fetch is pending, no identifier is marked as
\* loading.
C4_MarkerRemoved ==
    xhrs = {} => currentlyLoading = {}

\* C5: a request for an identifier that is loading and not cached raises
\* the cycle error for it; the request never receives a value, has no
\* request of its own and the identifier is not fetched again.
C5_InFlightIsCycle ==
    \A r \in requests :
       (r.inflight /\ ~r.cached)
       => /\ r.outcome = "cycle"
          /\ [kind |-> "Cycle", name |-> r.name, j |-> r.j, i |-> r.i] \in errors
          /\ joins[r.j].modules[r.i] = Undefined
          /\ \A x \in xhrs : ~(x.j = r.j /\ x.i = r.i)
          /\ Get(fetched, r.name, 0) <= 1

\* C5 witness: in the acyclic graph a -> {b, c} -> d the second request for
\* d was refused while d was loading, and d has been loaded since.
C5_SiblingRefused ==
    \E r \in requests :
       /\ r.name = Name("d") /\ r.outcome = "cycle"
       /\ joins[r.j].cont.name \in {Name("b"), Name("c")}
       /\ Name("d") \in DOMAIN moduleCache

\* C6: every identifier is fetched at most once, its body is executed at
\* most once, and at most one request for it is pending.
C6_AtMostOnce ==
    /\ \A n \in DOMAIN fetched : fetched[n] <= 1
    /\ \A n \in DOMAIN bodyRuns : n # START_FILE => Len(bodyRuns[n]) <= 1
    /\ \A x1, x2 \in xhrs : x1.name = x2.name => x1 = x2

\* C6 witness: an identifier was requested by two different callers, and
\* was fetched and executed.
C6_RequestedTwice ==
    \E r1, r2 \in requests :
       /\ r1.name = r2.name /\ r1 # r2
       /\ Get(fetched, r1.name, 0) = 1
       /\ Len(Get(bodyRuns, r1.name, <<>>)) = 1

\* C7 (as claimed): a cache entry, once set, keeps its value.
C7_CacheImmutable ==
    [][\A n \in DOMAIN moduleCache :
          n \in DOMAIN moduleCache' /\ moduleCache'[n] = moduleCache[n]]_vars

\* The healthy modules whose source has two import literals that resolve
\* to the same canonical identifier
DuplicateImporters ==
    { n \in DOMAIN Files :
        /\ Healthy(n)
        /\ LET lits == extractImportNames(Files[n])
           IN  \E a, b \in 1..Len(lits) :
                  a # b /\ Canon(n, lits[a]).name = Canon(n, lits[b]).name }

\* C8 (as claimed): once the source of a module with duplicate imports has
\* arrived and no fetch is pending, its body has been executed once and the
\* lookup function returns the one loaded value for each of the literals.
C8_DuplicatesLoadOnce ==
    \A n \in DuplicateImporters :
       (Get(fetched, n, 0) >= 1 /\ xhrs = {})
       => /\ Len(Get(bodyRuns, n, <<>>)) = 1
          /\ \A lit \in Range(extractImportNames(Files[n])) :
                /\ Get(fetched, Canon(n, lit).name, 0) <= 1
                /\ bodyRuns[n][1][lit] = moduleCache[Canon(n, lit).name]

\* C9: the continuation of a loadModules call is invoked at most once, only
\* when each of the N loads has reported, and then every requested
\* identifier is in the cache.
C9_JoinOnce ==
    /\ \A h \in handed :
          /\ h.nth = 1
          /\ h.cached
          /\ Len(h.modules) = Len(h.names)
          /\ \A i \in 1..Len(h.names) : h.modules[i] # Undefined
    /\ \A j \in 1..Len(joins) :
          Invoked(joins[j].cont) => joins[j].moduleCount = Len(joins[j].names)

\* C9 witness: the continuation of a require call for two identifiers has
\* been invoked.
C9_TwoDelivered ==
    \E h \in handed :
       h.cont.kind = "require" /\ Len(h.names) = 2 /\ h.names[1] # h.names[2]

\* C10 (as claimed): when no fetch is pending, every require call for
\* modules that are served, resolve and have no cycle has invoked its
\* continuation.
C10_AcyclicCompletes ==
    \A k \in 1..Len(calls) :
       (/\ calls[k].op = "require"
        /\ calls[k].arg \in HealthyLists
        /\ xhrs = {})
       => Invoked(RequireCont(k))

\* ------------------------------------------------------------------------
\* Claims about failed fetches, unknown names and inline objects

\* An import name that is neither absolute nor relative
IsBare(importName) ==
    /\ ~startsWith(importName, Slash)
    /\ ~startsWith(importName, DotSlash)
    /\ ~startsWith(importName, DotDotSlash)

\* The identifiers asked for that the server has no file for
Unserved ==
    { n \in UNION { Requested(l) : l \in EntryLists }
             \cup UNION { DirectDeps(f) : f \in DOMAIN Files } :
        /\ n # <<>>
        /\ n \notin DOMAIN Files
        /\ GlobalLookup(n).type # "object" }

\* The require calls that ask for an identifier without file, or for a
\* module that depends on one
UnservedLists ==
    { l \in EntryLists :
        \E n \in Requested(l) : ({n} \cup DepsOf(n)) \cap Unserved # {} }

\* The files that depend on an identifier without file
UnservedDependents ==
    { f \in DOMAIN Files : DepsOf(f) \cap Unserved # {} }

\* C11 (as claimed): an identifier whose fetch fails is never in the cache,
\* no body of a module depending on it is executed and the continuation of
\* a require call that needs it is never invoked.
C11_FetchFailureFatal ==
    /\ \A n \in Unserved : n \notin DOMAIN moduleCache
    /\ \A f \in UnservedDependents : Get(bodyRuns, f, <<>>) = <<>>
    /\ \A k \in 1..Len(calls) :
          (calls[k].op = "require" /\ calls[k].arg \in UnservedLists)
          => ~Invoked(RequireCont(k))

UnknownName(importName) ==
    IsBare(importName) /\ GlobalLookup(importName).type = "undefined"

\* The files whose source imports an unknown bare name
UnknownImporters ==
    { f \in DOMAIN Files :
        \E lit \in Range(extractImportNames(Files[f])) : UnknownName(lit) }

\* The require calls with an unknown bare name in their import list
EntryUnknownLists ==
    { l \in EntryLists : \E lit \in Range(l) : UnknownName(lit) }

\* The require calls that meet an unknown bare name, in their list or in a
\* module they load
UnknownLists ==
    EntryUnknownLists \cup
    { l \in EntryLists :
        \E n \in Requested(l) : ({n} \cup DepsOf(n)) \cap UnknownImporters # {} }

UnknownRaised == \E e \in errors : e.kind = "UnknownGlobalName"

\* C13: a require call that meets an unknown bare name, in its list or in
\* the source of a module it loads, never invokes its continuation; the
\* error is raised at once for a name of the list, and has been raised when
\* no fetch is pending for a name in a module; the importing module is
\* neither executed nor cached.
C13_UnknownGlobalFails ==
    /\ \A f \in UnknownImporters :
          f \notin DOMAIN moduleCache /\ Get(bodyRuns, f, <<>>) = <<>>
    /\ \A k \in 1..Len(calls) :
          (calls[k].op = "require" /\ calls[k].arg \in UnknownLists)
          => /\ ~Invoked(RequireCont(k))
             /\ calls[k].arg \in EntryUnknownLists => UnknownRaised
             /\ xhrs = {} => UnknownRaised

\* C13 witness: the source of a module importing an unknown name has
\* arrived and the error was raised.
C13_TransitiveUnknown ==
    \E f \in UnknownImporters :
       /\ Get(fetched, f, 0) = 1
       /\ \A x \in xhrs : x.name # f
       /\ UnknownRaised

\* The literal written for the request r (slot i of join j)
LiteralOf(r) ==
    LET cont == joins[r.j].cont
    IN  IF cont.kind = "require"
        THEN calls[cont.k].arg[r.i]
        ELSE cont.importNames[r.i]

\* C14 (as claimed): a load of a bare name whose table entry is an inline
\* object is answered from the cache, with that object, and the cache holds
\* the object under the bare name.
C14_InlineImmediate ==
    \A r \in requests :
       (LiteralOf(r) = r.name /\ GlobalLookup(r.name).type = "object")
       => /\ r.outcome = "cached"
          /\ joins[r.j].modules[r.i] = Inline(r.name)
          /\ moduleCache[r.name] = Inline(r.name)

\* ------------------------------------------------------------------------
\* The resolver called directly: e._resolveImportName(baseName, importName)

Segments == { DotDot, <<"a">>, <<"b">>, <<".">> }

\* The paths of 1..n segments
RECURSIVE Paths(_)
Paths(n) ==
    IF n <= 1 THEN Segments
    ELSE Paths(n - 1)
         \cup { p \o Slash \o seg : p \in Paths(n - 1), seg \in Segments }

\* Base names: the empty name, the start file, paths, and paths with a
\* trailing slash
BaseNames ==
    { <<>>, START_FILE } \cup Paths(MaxSegments)
    \cup { p \o Slash : p \in Paths(MaxSegments) }

\* The runs of 0..n prefixes "./" and "../"
RECURSIVE Prefixes(_)
Prefixes(n) ==
    IF n = 0 THEN { <<>> }
    ELSE Prefixes(n - 1)
         \cup { q \o p : q \in { DotSlash, DotDotSlash }, p \in Prefixes(n - 1) }

\* What follows the prefixes of a relative import name
Remainders == { <<"x">>, <<>>, DotDot, <<"x", "/">>, <<"c", "/", "x">> }

RelativeNames ==
    { p \o rest : p \in Prefixes(MaxPrefixes) \ { <<>> }, rest \in Remainders }

AbsoluteNames == { <<"/", "x">>, <<"/">> }

BareNames == { Name("g"), Name("x"), Name("y"), Name("z") }

ImportNames == RelativeNames \cup AbsoluteNames \cup BareNames

\* The cache when the resolver is called: empty, or holding the exports of
\* x.js or the inline object x
ResolverCaches ==
    { <<>>,
      (Name("x") :> Exports(Name("x"), 1)),
      (Name("x") :> Inline(Name("x"))) }

\* The markers when the resolver is called: none, or the marker that a
\* refused request left behind (loadModule sets it before send() throws)
ResolverLoading == { {}, Restricted }

ResolverInit ==
    /\ moduleCache \in ResolverCaches
    /\ currentlyLoading \in ResolverLoading
    /\ xhrs = {}
    /\ joins = <<>>
    /\ calls = <<>>
    /\ fetched = <<>>
    /\ bodyRuns = <<>>
    /\ handed = {}
    /\ errors = {}
    /\ requests = {}
    /\ \E baseName \in BaseNames, importName \in ImportNames :
          resolved = [NoCall EXCEPT !.baseName = baseName,
                                    !.importName = importName]
    /\ StrSetInit

\* var name = e._resolveImportName(baseName, importName)
ResolveCall ==
    /\ ~resolved.done
    /\ LET r == resolveImportName(State, resolved.baseName,
                                  resolved.importName)
       IN  /\ Commit(r.st)
           /\ resolved' = [resolved EXCEPT !.done = TRUE,
                                           !.op = "resolveImportName",
                                           !.name = r.name,
                                           !.thrown = r.st.thrown,
                                           !.cacheBefore = moduleCache]
    /\ UNCHANGED <<calls, strsetVars>>

\* var name = e._goToParentDir(baseName)
GoToParentDirCall ==
    /\ ~resolved.done
    /\ resolved' = [resolved EXCEPT !.done = TRUE,
                                    !.op = "goToParentDir",
                                    !.name = goToParentDir(resolved.baseName),
                                    !.cacheBefore = moduleCache]
    /\ UNCHANGED <<loaderVars, strsetVars>>

ResolverNext == ResolveCall \/ GoToParentDirCall

ResolverSpec == ResolverInit /\ [][ResolverNext]_vars

\* A call with these arguments, if made, returned name
Returned(baseName, importName, name) ==
    /\ resolved.done
    /\ resolved.op = "resolveImportName"
    /\ resolved.baseName = baseName
    /\ resolved.importName = importName
    => /\ ~resolved.thrown
       /\ resolved.name = name

\* The call with these arguments was made
Called(baseName, importName) ==
    /\ resolved.done
    /\ resolved.op = "resolveImportName"
    /\ resolved.baseName = baseName
    /\ resolved.importName = importName

\* C15 (as claimed): "a/b" with "../x" yields "a/x"; "a" with "../x" yields
\* "x"; "a" with "../../x" yields "../x".
C15_AsClaimed ==
    /\ Returned(<<"a", "/", "b">>, <<".", ".", "/", "x">>, <<"a", "/", "x">>)
    /\ Returned(<<"a">>, <<".", ".", "/", "x">>, <<"x">>)
    /\ Returned(<<"a">>, <<".", ".", "/", ".", ".", "/", "x">>,
                <<".", ".", "/", "x">>)

\* C15 (amended): "a/b" with "../x" yields "x"; "a" with "../x" yields
\* "../x"; "a" with "../../x" yields "../../x": the base is a file, so the
\* first ascent leaves the file for its directory.
C15_ParentOfFile ==
    /\ Returned(<<"a", "/", "b">>, <<".", ".", "/", "x">>, <<"x">>)
    /\ Returned(<<"a">>, <<".", ".", "/", "x">>, <<".", ".", "/", "x">>)
    /\ Returned(<<"a">>, <<".", ".", "/", ".", ".", "/", "x">>,
                <<".", ".", "/", ".", ".", "/", "x">>)

\* C15 witness: "../../x" was resolved against "a".
C15_TwoUpFromA ==
    Called(<<"a">>, <<".", ".", "/", ".", ".", "/", "x">>)

\* n segments "..", joined by "/"
RECURSIVE Ups(_)
Ups(n) == IF n <= 1 THEN DotDot ELSE DotDot \o Slash \o Ups(n - 1)

\* k prefixes "../"
RECURSIVE UpPrefix(_)
UpPrefix(k) == IF k = 0 THEN <<>> ELSE DotDotSlash \o UpPrefix(k - 1)

\* C16 (as claimed): "../.." with "../x" yields "../../../x".
C16_AsClaimed ==
    Returned(Ups(2), UpPrefix(1) \o <<"x">>, Ups(3) \o Slash \o <<"x">>)

\* C16 (amended): "../.." with "../x" yields "../../../../x"; in general an
\* import with k >= 1 leading "../" resolved against a base of n ".."
\* segments yields n + 1 + k ".." segments, "/" and the remainder: never a
\* descent segment before the remainder.
C16_AscentAccumulates ==
    /\ Returned(Ups(2), UpPrefix(1) \o <<"x">>, Ups(4) \o Slash \o <<"x">>)
    /\ \A n \in 1..MaxSegments, k \in 1..MaxPrefixes, rest \in Remainders :
          Returned(Ups(n), UpPrefix(k) \o rest,
                   Ups(n + 1 + k) \o Slash \o rest)

\* C16 witness: "../x" was resolved against "../..".
C16_UpFromUpUp ==
    Called(Ups(2), UpPrefix(1) \o <<"x">>)

\* C17: against the start file, "./x" yields "x" and "../x" yields "../x".
C17_StartFile ==
    /\ Returned(START_FILE, Sibling("x"), <<"x">>)
    /\ Returned(START_FILE, <<".", ".", "/", "x">>, <<".", ".", "/", "x">>)

\* C17 witness: "../x" was resolved against the start file.
C17_UpFromStart ==
    Called(START_FILE, <<".", ".", "/", "x">>) /\ ~resolved.thrown

\* A name starts with "./" or ends with "/" (character by character)
DotSlashOrTrailing(name) ==
    \/ Len(name) >= 2 /\ name[1] = "." /\ name[2] = "/"
    \/ Len(name) >= 1 /\ name[Len(name)] = "/"

\* C18 (as claimed): for a legal base and an absolute name, a relative name
\* or a bare name mapped to a string, a name returned by the resolver
\* neither starts with "./" nor ends with "/".
C18_ResultLegal ==
    /\ resolved.done
    /\ resolved.op = "resolveImportName"
    /\ ~DotSlashOrTrailing(resolved.baseName)
    /\ resolved.importName \in RelativeNames \cup AbsoluteNames
       \/ GlobalLookup(resolved.importName).type = "string"
    /\ ~resolved.thrown
    => ~DotSlashOrTrailing(resolved.name)

\* C19: against a base that starts with "./" or ends with "/" every import
\* name fails with the illegal-name error for the base, that is the only
\* error, and the cache is as before.
C19_IllegalBaseFails ==
    /\ resolved.done
    /\ resolved.op = "resolveImportName"
    /\ DotSlashOrTrailing(resolved.baseName)
    => /\ resolved.thrown
       /\ errors = {[kind |-> "IllegalNormalizedName",
                     name |-> resolved.baseName, j |-> 0, i |-> 0]}
       /\ moduleCache = resolved.cacheBefore

\* C19 witness: a bare name with an inline object, not yet cached, was
\* resolved against an illegal base.
C19_InlineAgainstIllegal ==
    /\ resolved.done
    /\ resolved.op = "resolveImportName"
    /\ DotSlashOrTrailing(resolved.baseName)
    /\ resolved.importName = Name("x")
    /\ resolved.cacheBefore = <<>>

\* ------------------------------------------------------------------------
\* StringSet (src/demo/strset.js) and ootools.copyOwnTo

\* JavaScript values handed to the set: v is String(value)
Str(v) == [type |-> "string", v |-> v]
Num(v) == [type |-> "number", v |-> v]

Elements  == { Str("a"), Str("b"), Str("__proto__") }
Arguments == Elements \cup { Num("3") }

\* {}: an ordinary object without own properties
EmptyObject == <<>>

\* obj[key] = true for an ordinary object: "__proto__" is the accessor
\* inherited from Object.prototype, and its setter ignores a value that is
\* not an object; any other key becomes an own property
SetTrue(obj, key) ==
    IF key = "__proto__" THEN obj ELSE Put(obj, key, "true")

\* obj[key] for an ordinary object: the "__proto__" getter returns the
\* prototype; a key that is not an own property is undefined
GetProperty(obj, key) ==
    IF key = "__proto__" THEN "Object.prototype"
    ELSE Get(obj, key, "undefined")

\* exports.copyOwnTo(source, target): defineProperty for each own property
copyOwnTo(source, target) ==
    [k \in DOMAIN source \cup DOMAIN target |->
        IF k \in DOMAIN source THEN source[k] ELSE target[k]]

\* Faulty variant: the argument is converted to a string, never refused
add_Coerce(this, elem) ==
    [this EXCEPT !.data = SetTrue(@, elem.v)]

\* StringSet.prototype.add: the object after the call; error names the
\* argument of the TypeError thrown, "" if none was thrown
add(this, elem) ==
    IF elem.type # "string"
    THEN [this EXCEPT !.error = elem.v]
    ELSE [this EXCEPT !.data = SetTrue(@, elem.v)]

\* StringSet.prototype.contains
contains(data, elem) == GetProperty(data, elem.v) = "true"

\* Array.prototype.forEach.call(arguments, ...): add each argument, until
\* one throws
RECURSIVE addEach(_, _)
addEach(this, args) ==
    IF args = <<>> \/ this.error # "" THEN this
    ELSE addEach(add(this, Head(args)), Tail(args))

RECURSIVE ArgumentLists(_)
ArgumentLists(n) ==
    IF n = 0 THEN { <<>> }
    ELSE ArgumentLists(n - 1)
         \cup { <<a>> \o l : a \in Arguments, l \in ArgumentLists(n - 1) }

\* new TypeError("Argument is not a string: "+elem), thrown by add called on
\* the this-th object constructed
TypeError(v, this) == [name |-> "TypeError", argument |-> v, this |-> this]

\* new StringSet(args...) with arguments that are not a StringSet
NewStringSet(args) ==
    /\ Len(sets) < MaxSets
    /\ LET this == addEach([data |-> EmptyObject, error |-> ""], args)
       IN  IF this.error = ""
           THEN /\ sets' = Append(sets, this.data)
                /\ passed' = Append(passed, { args[i].v : i \in 1..Len(args) })
                /\ copied' = Append(copied, {})
                /\ UNCHANGED typeErrors
           ELSE /\ typeErrors' = typeErrors
                                  \cup { TypeError(this.error, Len(sets) + 1) }
                /\ UNCHANGED <<sets, passed, copied>>
    /\ UNCHANGED <<loaderVars, resolved>>

\* new StringSet(other) with other the i-th set
CopyStringSet(i) ==
    /\ Len(sets) < MaxSets
    /\ i \in 1..Len(sets)
    /\ sets' = Append(sets, copyOwnTo(sets[i], EmptyObject))
    /\ passed' = Append(passed, {})
    /\ copied' = Append(copied,
                        { e.v : e \in { m \in Elements : contains(sets[i], m) } })
    /\ UNCHANGED <<typeErrors, loaderVars, resolved>>

\* sets[i].add(elem)
Add(i, elem) ==
    /\ i \in 1..Len(sets)
    /\ LET this == add([data |-> sets[i], error |-> ""], elem)
       IN  IF this.error = ""
           THEN /\ sets' = [sets EXCEPT ![i] = this.data]
                /\ passed' = [passed EXCEPT ![i] = @ \cup { elem.v }]
                /\ UNCHANGED typeErrors
           ELSE /\ typeErrors' = typeErrors \cup { TypeError(this.error, i) }
                /\ UNCHANGED <<sets, passed>>
    /\ UNCHANGED <<copied, loaderVars, resolved>>

StrSetNext ==
    \/ \E args \in ArgumentLists(MaxArgs) : NewStringSet(args)
    \/ \E i \in 1..Len(sets) : CopyStringSet(i)
    \/ \E i \in 1..Len(sets) : \E elem \in Arguments : Add(i, elem)

StrSetSpec == Init /\ [][StrSetNext]_vars

\* C20 (as claimed): a set contains a string if and only if the string was
\* passed to its constructor or to add, or the original had it when the set
\* was constructed as a copy.
C20_Membership ==
    \A i \in 1..Len(sets) : \A e \in Elements :
       contains(sets[i], e) <=> e.v \in passed[i] \cup copied[i]

\* C21: a call of add with an argument that is not a string throws the
\* TypeError naming the argument and leaves the members of every set as
\* they were.
C21_AddRejectsNonString ==
    [][\A i \in 1..Len(sets) : \A elem \in Arguments \ Elements :
          Add(i, elem)
          => /\ TypeError(elem.v, i) \in typeErrors'
             /\ sets' = sets]_vars

\* C21 witness: add threw on a set that has a member.
C21_RejectedOnMember ==
    \E e \in typeErrors :
       /\ e.this \in 1..Len(sets)
       /\ contains(sets[e.this], Str("a"))
       /\ e.argument = "3"

\* The call e._goToParentDir(name) was made
Ascended(name) ==
    /\ resolved.done
    /\ resolved.op = "goToParentDir"
    /\ resolved.baseName = name

\* The name has no "/"
NoSlash(name) == \A i \in 1..Len(name) : name[i] # "/"

\* C22: for a legal name, ascending "" gives ".."; ascending k >= 1
\* segments ".." gives k + 1 segments ".."; ascending any other name gives
\* the name without its last "/"-delimited segment, or "" when the name
\* has no "/".
C22_AscentRule ==
    resolved.done /\ resolved.op = "goToParentDir"
    /\ ~DotSlashOrTrailing(resolved.baseName)
    => LET name == resolved.baseName
           up   == resolved.name
       IN  IF name = <<>> THEN up = DotDot
           ELSE IF \E k \in 1..(MaxSegments + 1) : name = Ups(k)
           THEN \E k \in 1..(MaxSegments + 1) :
                   name = Ups(k) /\ up = Ups(k + 1)
           ELSE IF NoSlash(name) THEN up = <<>>
           ELSE \E i \in 1..Len(name) :
                   /\ name[i] = "/"
                   /\ NoSlash(SubSeq(name, i + 1, Len(name)))
                   /\ up = SubSeq(name, 1, i - 1)

\* C22 witness: a name with a descent after an ascent was ascended.
C22_MixedAscended ==
    Ascended(<<".", ".", "/", "a">>) /\ resolved.name = DotDot

\* C23: a call of the resolver leaves the markers and the pending requests
\* as they were; it leaves the cache as it was for an absolute name, a
\* relative name and a bare name mapped to a string; for a bare name mapped
\* to an inline object every other entry of the cache stays, and the cache
\* stays as a whole when the name is cached already.
C23_OnlyPreSeeds ==
    [][~resolved.done /\ resolved'.done /\ resolved'.op = "resolveImportName"
       => LET importName == resolved.importName
          IN  /\ currentlyLoading' = currentlyLoading
              /\ xhrs' = xhrs /\ joins' = joins
              /\ importName \in RelativeNames \cup AbsoluteNames
                 \/ GlobalLookup(importName).type = "string"
                 => moduleCache' = moduleCache
              /\ GlobalLookup(importName).type = "object"
                 => /\ DOMAIN moduleCache' \subseteq
                          DOMAIN moduleCache \cup {importName}
                    /\ \A n \in DOMAIN moduleCache :
                          n # importName
                          => n \in DOMAIN moduleCache'
                             /\ moduleCache'[n] = moduleCache[n]
                    /\ importName \in DOMAIN moduleCache
                       => moduleCache' = moduleCache]_vars

\* C23 witness: the inline object x was resolved while the cache held the
\* exports of x.js and a marker was set.
C23_InlineAlreadyCached ==
    /\ resolved.done
    /\ resolved.op = "resolveImportName"
    /\ resolved.importName = Name("x")
    /\ ~resolved.thrown
    /\ resolved.cacheBefore = (Name("x") :> Exports(Name("x"), 1))
    /\ currentlyLoading = Restricted

\* C24 (as claimed): no identifier is at the same time in the cache and
\* marked as loading.
C24_CacheAndMarkersDisjoint ==
    DOMAIN moduleCache \cap currentlyLoading = {}

\* The import names of a call of the public interface
LiteralsOf(call) ==
    IF call.op = "require" THEN call.arg ELSE extractImportNames(call.arg)

\* The callback the k-th call of the public interface passes to loadModules
ContOf(call, k) ==
    IF call.op = "require"
    THEN RequireCont(k)
    ELSE ModuleCont(START_FILE, extractImportNames(call.arg), NoCallback(k))

\* Each import name resolves to an identifier that is in the cache when
\* loadModules is called: cached before, or an inline object
AllCached(baseName, literals, cache) ==
    \A lit \in Range(literals) :
       /\ Resolves(baseName, lit)
       /\ \/ Canon(baseName, lit).name \in DOMAIN cache
          \/ IsBare(lit) /\ GlobalLookup(lit).type = "object"

\* C25: a call whose list of identifiers is empty, or whose identifiers
\* are all in the cache, invokes its continuation exactly once within the
\* step of the call, with an array as long as the list; no request is sent
\* and no marker is set. The same holds for the load of the imports of a
\* module whose source has arrived.
C25_ImmediateJoin ==
    [][/\ Len(calls') = Len(calls) + 1
          => LET k    == Len(calls')
                 call == calls'[k]
             IN  AllCached(START_FILE, LiteralsOf(call), moduleCache)
                 => /\ \E h \in handed' \ handed :
                          /\ h.cont = ContOf(call, k)
                          /\ h.nth = 1
                          /\ Len(h.modules) = Len(LiteralsOf(call))
                    /\ Cardinality({ h \in handed' :
                                       h.cont = ContOf(call, k) }) = 1
                    /\ xhrs' = xhrs
                    /\ fetched' = fetched
                    /\ currentlyLoading' = currentlyLoading
       /\ \A x \in xhrs \ xhrs' :
             LET importNames == extractImportNames(Files[x.name])
                 cont == ModuleCont(x.name, importNames,
                                    SlotCallback(x.j, x.i))
             IN  (/\ x.name \in DOMAIN Files
                  /\ AllCached(x.name, importNames, moduleCache))
                 => /\ \E h \in handed' \ handed :
                          /\ h.cont = cont
                          /\ h.nth = 1
                          /\ Len(h.modules) = Len(importNames)
                    /\ Cardinality({ h \in handed' : h.cont = cont }) = 1
                    /\ xhrs' = xhrs \ {x}
                    /\ fetched' = fetched]_vars

\* C25 witness: x.js was requested once, and a second call for it was
\* answered from the cache.
C25_AnsweredFromCache ==
    /\ Len(calls) = 2
    /\ calls[1] = [op |-> "require", arg |-> <<Sibling("x")>>]
    /\ calls[2] = calls[1]
    /\ Get(fetched, Name("x"), 0) = 1
    /\ Invoked(RequireCont(2))

====
